---- MODULE Spec2Model ----
(***************************************************************************)
(* Model of healthcaremcp.py: the "Healthcare Assistant" MCP server.       *)
(*                                                                         *)
(* The program is a start-up block (__main__), a lifespan context manager  *)
(* (app_lifespan) that owns a Supabase client and an HTTP client, and a    *)
(* set of registered handlers (resources, tools, prompts) that the server  *)
(* dispatches one at a time while the lifespan context is yielded.         *)
(*                                                                         *)
(* Strings the handlers build are modelled as sequences of pieces (the     *)
(* literal parts of the f-string and the interpolated values), so that     *)
(* "contains the identifier" and "starts with Error" are decidable.        *)
(***************************************************************************)
EXTENDS Integers, Sequences, FiniteSets, TLC

VARIABLES
    module_name,   \* value of __name__ when the module body runs
    environ,       \* os.environ restricted to the four keys
    pc,            \* position of the process (start-up, lifespan, serving, ...)
    log,           \* lifecycle events in the order they happened
    supabase,      \* the Supabase client held by app_lifespan
    http_client,   \* the httpx.AsyncClient held by app_lifespan
    closeCount,    \* number of times http_client.aclose() ran
    exitHow,       \* how the run loop ended ("normal" / "fault")
    printed,       \* the missing_vars list __main__ printed
    exitCode,      \* process exit status, -1 while running
    op,            \* handler being executed, "none" when idle
    hpc,           \* position inside the handler
    arg,           \* the identifier argument (user_id / doctor_id)
    ctx,           \* shape of ctx.request_context.lifespan_context
    outcome,       \* "none" / "returned" / "raised"
    result,        \* the returned string (pieces) or the raised exception
    calls,         \* external calls issued by this invocation (all kinds)
    httpRequests,  \* HTTP requests issued by this invocation
    response,      \* the external collaborator's answer to this invocation
    table          \* rows of the queried collection, in insertion order

vars == <<module_name, environ, pc, log, supabase, http_client, closeCount,
          exitHow, printed, exitCode, op, hpc, arg, ctx, outcome, result,
          calls, httpRequests, response, table>>

lifeVars == <<supabase, http_client, closeCount, exitHow>>
mainVars == <<module_name, environ, printed, exitCode>>
callVars == <<op, hpc, arg, ctx, outcome, result, calls, httpRequests,
              response, table>>

(***************************************************************************)
(* Bounds of the model.                                                    *)
(***************************************************************************)
MaxRecords == 3     \* rows in the medical_records collection
MaxTime == 2        \* distinct created_at values

(***************************************************************************)
(* Environment.                                                            *)
(***************************************************************************)
\* Variant: the list names the data-store keys only.
required_env_vars_store_only == <<"SUPABASE_URL", "SUPABASE_ANON_KEY">>

\* __main__: required_env_vars, in the order of the list literal.
required_env_vars ==
    <<"SUPABASE_URL", "SUPABASE_ANON_KEY", "DOCTOR_API_KEY", "SKIN_ANALYSIS_API_KEY">>

EnvKeys ==
    {"SUPABASE_URL", "SUPABASE_ANON_KEY", "DOCTOR_API_KEY", "SKIN_ANALYSIS_API_KEY"}

\* A variable is absent (getenv gives None), set to "" or set to a value.
EnvValues == {"absent", "empty", "set"}

\* os.getenv(var) in a boolean context: None and "" are falsy.
getenv(var) == environ[var]

Truthy(v) == v = "set"

\* [x for x in s if P(x)] on a sequence: keeps the order of s.
RECURSIVE SelectInOrder(_, _)
SelectInOrder(s, keep) ==
    IF s = <<>> THEN <<>>
    ELSE IF Head(s) \in keep
         THEN <<Head(s)>> \o SelectInOrder(Tail(s), keep)
         ELSE SelectInOrder(Tail(s), keep)

Range(s) == {s[i] : i \in DOMAIN s}

\* __main__: missing_vars = [var for var in required_env_vars if not os.getenv(var)]
missing_vars ==
    SelectInOrder(required_env_vars,
                  {v \in Range(required_env_vars) : ~Truthy(getenv(v))})

(***************************************************************************)
(* Start-up: the __main__ block.                                           *)
(***************************************************************************)
\* if __name__ == "__main__": ... missing -> print, exit(1); else mcp.run()
Main ==
    /\ pc = "module_loaded"
    /\ module_name = "__main__"
    /\ IF missing_vars # <<>>
       THEN /\ printed' = missing_vars
            /\ exitCode' = 1
            /\ pc' = "exited"
            /\ log' = log
       ELSE /\ printed' = printed
            /\ exitCode' = exitCode
            /\ pc' = "check"
            /\ log' = Append(log, "run")
    /\ UNCHANGED <<module_name, environ, lifeVars, callVars>>

\* The module is imported by a host (mcp run / mcp dev): __name__ is not
\* "__main__", the block is skipped and the host runs the mcp object.
HostRun ==
    /\ pc = "module_loaded"
    /\ module_name # "__main__"
    /\ pc' = "check"
    /\ log' = Append(log, "run")
    /\ UNCHANGED <<mainVars, lifeVars, callVars>>

(***************************************************************************)
(* app_lifespan.                                                           *)
(***************************************************************************)
\* Variant: the HTTP client is constructed before the Supabase client.
LifespanNextHttpFirst(step) ==
    CASE step = "check" -> "create_http"
      [] step = "create_http" -> "create_supabase"
      [] step = "create_supabase" -> "yield"

\* The statement that follows each statement of app_lifespan.
LifespanNext(step) ==
    CASE step = "check" -> "create_supabase"
      [] step = "create_supabase" -> "create_http"
      [] step = "create_http" -> "yield"

\* Startup aborted by an exception out of app_lifespan: traceback, exit 1.
StartupFailed ==
    /\ pc' = "startup_failed"
    /\ exitCode' = 1

\* if not supabase_url or not supabase_key: raise ValueError(...)
LifespanCheck ==
    /\ pc = "check"
    /\ log' = Append(log, "check")
    /\ IF ~Truthy(getenv("SUPABASE_URL")) \/ ~Truthy(getenv("SUPABASE_ANON_KEY"))
       THEN StartupFailed
       ELSE /\ pc' = LifespanNext("check")
            /\ exitCode' = exitCode
    /\ UNCHANGED <<module_name, environ, printed, lifeVars, callVars>>

\* supabase = create_client(supabase_url, supabase_key); may raise.
CreateSupabase ==
    /\ pc = "create_supabase"
    /\ log' = Append(log, "create_supabase")
    /\ \E ok \in BOOLEAN :
         IF ok
         THEN /\ supabase' = "constructed"
              /\ pc' = LifespanNext("create_supabase")
              /\ exitCode' = exitCode
         ELSE /\ supabase' = supabase
              /\ StartupFailed
    /\ UNCHANGED <<module_name, environ, printed, http_client, closeCount,
                   exitHow, callVars>>

\* http_client = httpx.AsyncClient(timeout=30.0); may raise.
CreateHttp ==
    /\ pc = "create_http"
    /\ log' = Append(log, "create_http")
    /\ \E ok \in BOOLEAN :
         IF ok
         THEN /\ http_client' = "open"
              /\ pc' = LifespanNext("create_http")
              /\ exitCode' = exitCode
         ELSE /\ http_client' = http_client
              /\ StartupFailed
    /\ UNCHANGED <<module_name, environ, printed, supabase, closeCount,
                   exitHow, callVars>>

\* try: yield AppContext(supabase=supabase, http_client=http_client)
Yield ==
    /\ pc = "yield"
    /\ pc' = "serving"
    /\ log' = Append(log, "yield")
    /\ UNCHANGED <<mainVars, lifeVars, callVars>>

\* The run loop ends while no request is being handled: normally, or by a
\* fault that nothing handled (thrown into the generator at the yield).
RunLoopExit ==
    /\ pc = "serving"
    /\ op = "none"
    /\ \E how \in {"normal", "fault"} : exitHow' = how
    /\ pc' = "finally"
    /\ log' = Append(log, "loop_exit")
    /\ UNCHANGED <<mainVars, supabase, http_client, closeCount, callVars>>

\* Variant: aclose() placed after the yield without try/finally.
ClosesOnNormalExitOnly(how) == how = "normal"

\* Whether the clean-up clause runs for this way of leaving the try block.
FinallyRuns(how) == TRUE

\* finally: await http_client.aclose(); then the fault, if any, continues.
Finally ==
    /\ pc = "finally"
    /\ IF FinallyRuns(exitHow)
       THEN /\ http_client' = "closed"
            /\ closeCount' = closeCount + 1
            /\ log' = Append(log, "aclose")
       ELSE UNCHANGED <<http_client, closeCount, log>>
    /\ pc' = "stopped"
    /\ exitCode' = IF exitHow = "normal" THEN 0 ELSE 1
    /\ UNCHANGED <<module_name, environ, printed, supabase, exitHow, callVars>>

(***************************************************************************)
(* External collaborators: what a data-store query or an HTTP call can     *)
(* answer.  raised: the call itself raised; status/body: the HTTP answer;  *)
(* data: the rows of response.data.                                        *)
(***************************************************************************)
Response(raised, status, body, data) ==
    [raised |-> raised, status |-> status, body |-> body, data |-> data]

NoResponse == Response(FALSE, 0, "none", <<>>)

\* Identifiers passed as user_id / doctor_id.
Ids == {"42", "7"}

\* Rows of the users collection: full_name may be missing from a row.
UserRows ==
    {[id |-> i] : i \in Ids} \cup {[id |-> i, full_name |-> "Ann"] : i \in Ids}

\* users has id as its key: at most one row per id.
UserTables ==
    {<<>>} \cup {<<r>> : r \in UserRows}
    \cup {<<r, q>> : <<r, q>> \in {x \in UserRows \X UserRows : x[1].id # x[2].id}}

\* Rows of medical_records in insertion order; condition stands for the
\* row's own content (here: its insertion rank).
MedTables ==
    UNION {
      {[i \in 1..n |-> [user_id |-> f[i][1], created_at |-> f[i][2],
                        condition |-> ToString(i)]] :
         f \in [1..n -> Ids \X (1..MaxTime)]} : n \in 0..MaxRecords}

\* An HTTP answer: the call raised (transport), or a status and a body.
HttpResponses ==
    {Response(TRUE, 0, "none", <<>>)}
    \cup {Response(FALSE, s, b, <<>>) :
            s \in {200, 500}, b \in {"data", "nodata", "malformed", "badfields"}}

\* dict.get(key, default)
Get(row, key, default) == IF key \in DOMAIN row THEN row[key] ELSE default

\* Indices of the rows of t for which column col equals v, in table order.
RECURSIVE Matching(_, _, _, _)
Matching(t, col, v, i) ==
    IF i > Len(t) THEN <<>>
    ELSE IF t[i][col] = v
         THEN <<i>> \o Matching(t, col, v, i + 1)
         ELSE Matching(t, col, v, i + 1)

\* The orders in which the rows idx of t may come back under
\* .order("created_at", desc=True): every arrangement that is non-increasing
\* in created_at (rows with equal created_at come in any order).
OrderedDesc(t, idx) ==
    {p \in [1..Len(idx) -> Range(idx)] :
        /\ \A i, j \in 1..Len(idx) : i # j => p[i] # p[j]
        /\ \A i \in 1..(Len(idx) - 1) :
              t[p[i]].created_at >= t[p[i + 1]].created_at}

RowsAt(t, p) == [i \in 1..Len(p) |-> t[p[i]]]

\* .select("*").eq("id", user_id).execute() on users
QueryUsers(t, user_id) ==
    {RowsAt(t, Matching(t, "id", user_id, 1))}

\* Variant: the .order(...) clause is left out (rows come in table order).
QueryMedicalRecordsUnordered(t, user_id) ==
    {RowsAt(t, Matching(t, "user_id", user_id, 1))}

\* .select("*").eq("user_id", user_id).order("created_at", desc=True).execute()
QueryMedicalRecords(t, user_id) ==
    {RowsAt(t, p) : p \in OrderedDesc(t, Matching(t, "user_id", user_id, 1))}

(***************************************************************************)
(* The strings the handlers build.                                         *)
(***************************************************************************)
RECURSIVE Flatten(_)
Flatten(ss) == IF ss = <<>> THEN <<>> ELSE Head(ss) \o Flatten(Tail(ss))

\* f"Error ...: {str(e)}" of each except clause.
ErrorString(prefix, e) == <<prefix, e>>

ProfileText(user_data) ==
    <<"User Profile: - Name: ", Get(user_data, "full_name", "N/A"),
      "- Email: ", Get(user_data, "email", "N/A")>>

\* Variant: the message does not interpolate the identifier.
ProfileNotFoundWithoutId(user_id) == <<"No user found">>

ProfileNotFound(user_id) == <<"No user found with ID: ", user_id>>

\* One element of records: the five labelled fields, then the "---" line.
RecordBlock(record) ==
    <<"Date: ", ToString(Get(record, "created_at", "Unknown")),
      "Condition: ", Get(record, "condition", "N/A"), "---">>

HistoryText(user_id, data) ==
    <<"Medical History for User ", user_id, ":">>
    \o Flatten([i \in 1..Len(data) |-> RecordBlock(data[i])])

HistoryNotFound(user_id) == <<"No medical history found for user: ", user_id>>

DoctorKeyNotConfigured ==
    <<"Doctor API key not configured. Please contact administrator.">>

SkinKeyNotConfigured ==
    <<"Skin analysis API not configured. Please contact administrator.">>

NoDoctorsFound ==
    <<"No doctors found in your area. Please try expanding your search radius.">>

DoctorsFound == <<"Nearby Doctors Found:", "1. Dr. ", "Would you like to book">>

AvailabilityText(doctor_id) ==
    <<"Available Appointment Slots for Dr. ", doctor_id, ":", "This Week:">>

AnalysisText == <<"Skin Condition Analysis Results:", "IMPORTANT DISCLAIMER">>

BookingText == <<"Appointment Booking Options for ", "doctor_name", ":">>

\* response.raise_for_status(): raises on a non-success status.
RaisesForStatus(resp) == resp.status >= 400

(***************************************************************************)
(* Dispatch.                                                               *)
(***************************************************************************)
UsesContext ==
    {"get_user_profile", "get_user_medical_history", "search_nearby_doctors",
     "get_doctor_availability", "analyze_skin_condition_image",
     "save_user_interaction"}

NoContext ==
    {"create_appointment_booking_resource", "skincare_product_consultation",
     "appointment_workflow_prompt"}

\* What ctx.request_context.lifespan_context is for this request: the object
\* app_lifespan yielded (an AppContext dataclass instance), or a mapping when
\* the host exposes the context as a dict, which is what the handlers index.
CtxShapes == {"AppContext", "mapping"}

\* lifespan_context["supabase"]: a dataclass instance has no __getitem__.
Subscriptable(c) == c = "mapping"

\* The server takes the next request and calls the registered handler.
Dispatch ==
    /\ pc = "serving"
    /\ op = "none"
    /\ \E o \in UsesContext \cup NoContext, a \in Ids, c \in CtxShapes :
         /\ op' = o
         /\ arg' = a
         /\ ctx' = c
         /\ hpc' = IF o \in UsesContext THEN "lookup" ELSE "body"
    /\ outcome' = "none"
    /\ result' = <<>>
    /\ calls' = 0
    /\ httpRequests' = 0
    /\ response' = NoResponse
    /\ table' = <<>>
    /\ log' = IF "dispatch" \in Range(log) THEN log ELSE Append(log, "dispatch")
    /\ pc' = pc
    /\ UNCHANGED <<mainVars, lifeVars>>

\* The handler has returned or raised; the server is idle again.
Return ==
    /\ pc = "serving"
    /\ hpc = "done"
    /\ op' = "none"
    /\ hpc' = "idle"
    /\ arg' = "none"
    /\ ctx' = "none"
    /\ outcome' = "none"
    /\ result' = <<>>
    /\ calls' = 0
    /\ httpRequests' = 0
    /\ response' = NoResponse
    /\ table' = <<>>
    /\ UNCHANGED <<pc, log, mainVars, lifeVars>>

\* The handler ends with `return text`.
Returns(text) ==
    /\ outcome' = "returned"
    /\ result' = text
    /\ hpc' = "done"

\* The handler ends with an exception leaving it.
Raises(e) ==
    /\ outcome' = "raised"
    /\ result' = <<e>>
    /\ hpc' = "done"

\* The statements before `try:` that fetch the client from the context:
\*   ctx = mcp.get_context()   (resources; tools receive ctx)
\*   client = ctx.request_context.lifespan_context["supabase" | "http_client"]
ContextLookup(o) ==
    /\ pc = "serving"
    /\ op = o
    /\ hpc = "lookup"
    /\ IF Subscriptable(ctx)
       THEN /\ hpc' = "body"
            /\ UNCHANGED <<outcome, result>>
       ELSE Raises("TypeError")
    /\ UNCHANGED <<pc, log, mainVars, lifeVars, op, arg, ctx, calls,
                   httpRequests, response, table>>

(***************************************************************************)
(* Resources.                                                              *)
(***************************************************************************)
\* Variant: the except clause runs the body again instead of returning.
ExceptClauseRetry(prefix, e) ==
    /\ hpc' = "body"
    /\ UNCHANGED <<outcome, result>>

\* Where the handler goes when an exception is raised inside its try block:
\* the except clause returns the formatted string.
ExceptClause(prefix, e) == Returns(ErrorString(prefix, e))

get_user_profile_lookup == ContextLookup("get_user_profile")

\* try: response = supabase.table("users")...execute(); if response.data ...
get_user_profile ==
    /\ pc = "serving"
    /\ op = "get_user_profile"
    /\ hpc = "body"
    /\ calls' = calls + 1
    /\ \E t \in UserTables, raised \in BOOLEAN :
         /\ table' = t
         /\ IF raised
            THEN /\ response' = Response(TRUE, 0, "none", <<>>)
                 /\ ExceptClause("Error retrieving user profile: ", "APIError")
            ELSE \E data \in QueryUsers(t, arg) :
                   /\ response' = Response(FALSE, 200, "rows", data)
                   /\ IF data # <<>>
                      THEN Returns(ProfileText(data[1]))
                      ELSE Returns(ProfileNotFound(arg))
    /\ UNCHANGED <<pc, log, mainVars, lifeVars, op, arg, ctx, httpRequests>>

get_user_medical_history_lookup == ContextLookup("get_user_medical_history")

\* try: response = supabase.table("medical_records")...order(...).execute()
get_user_medical_history ==
    /\ pc = "serving"
    /\ op = "get_user_medical_history"
    /\ hpc = "body"
    /\ calls' = calls + 1
    /\ \E t \in MedTables, raised \in BOOLEAN :
         /\ table' = t
         /\ IF raised
            THEN /\ response' = Response(TRUE, 0, "none", <<>>)
                 /\ ExceptClause("Error retrieving medical history: ", "APIError")
            ELSE \E data \in QueryMedicalRecords(t, arg) :
                   /\ response' = Response(FALSE, 200, "rows", data)
                   /\ IF data # <<>>
                      THEN Returns(HistoryText(arg, data))
                      ELSE Returns(HistoryNotFound(arg))
    /\ UNCHANGED <<pc, log, mainVars, lifeVars, op, arg, ctx, httpRequests>>

(***************************************************************************)
(* Tools.                                                                  *)
(***************************************************************************)
\* `await http_client.get(...)` / `.post(...)`: the request leaves and the
\* handler is suspended until the answer comes.
SendHttpRequest ==
    /\ calls' = calls + 1
    /\ httpRequests' = httpRequests + 1
    /\ hpc' = "awaiting"
    /\ UNCHANGED <<outcome, result>>

search_nearby_doctors_lookup == ContextLookup("search_nearby_doctors")

\* api_key = os.getenv("DOCTOR_API_KEY"); if not api_key: return "...";
\* try: ... response = await http_client.get(url, params=params)
search_nearby_doctors_request ==
    /\ pc = "serving"
    /\ op = "search_nearby_doctors"
    /\ hpc = "body"
    /\ IF ~Truthy(getenv("DOCTOR_API_KEY"))
       THEN /\ Returns(DoctorKeyNotConfigured)
            /\ UNCHANGED <<calls, httpRequests>>
       ELSE SendHttpRequest
    /\ UNCHANGED <<pc, log, mainVars, lifeVars, op, arg, ctx, response, table>>

\* response.raise_for_status(); data = response.json(); render the first 5.
search_nearby_doctors_response ==
    /\ pc = "serving"
    /\ op = "search_nearby_doctors"
    /\ hpc = "awaiting"
    /\ \E r \in HttpResponses :
         /\ response' = r
         /\ CASE r.raised ->
                   ExceptClause("Error searching for doctors: ", "ConnectError")
              [] ~r.raised /\ RaisesForStatus(r) ->
                   ExceptClause("Error searching for doctors: ", "HTTPStatusError")
              [] ~r.raised /\ ~RaisesForStatus(r) /\ r.body = "malformed" ->
                   ExceptClause("Error searching for doctors: ", "JSONDecodeError")
              [] ~r.raised /\ ~RaisesForStatus(r) /\ r.body = "nodata" ->
                   Returns(NoDoctorsFound)
              [] ~r.raised /\ ~RaisesForStatus(r) /\ r.body = "badfields" ->
                   ExceptClause("Error searching for doctors: ", "IndexError")
              [] ~r.raised /\ ~RaisesForStatus(r) /\ r.body = "data" ->
                   Returns(DoctorsFound)
    /\ UNCHANGED <<pc, log, mainVars, lifeVars, op, arg, ctx, calls,
                   httpRequests, table>>

get_doctor_availability_lookup == ContextLookup("get_doctor_availability")

\* try: api_key = os.getenv("DOCTOR_API_KEY"); url = ...;
\*      response = await http_client.get(url, headers={"Authorization": ...})
\* The key is put into the header whatever it is (None included).
get_doctor_availability_request ==
    /\ pc = "serving"
    /\ op = "get_doctor_availability"
    /\ hpc = "body"
    /\ SendHttpRequest
    /\ UNCHANGED <<pc, log, mainVars, lifeVars, op, arg, ctx, response, table>>

\* The answer is not looked at: the fixed slot list is returned.
get_doctor_availability_response ==
    /\ pc = "serving"
    /\ op = "get_doctor_availability"
    /\ hpc = "awaiting"
    /\ \E r \in HttpResponses :
         /\ response' = r
         /\ IF r.raised
            THEN ExceptClause("Error retrieving doctor availability: ", "ConnectError")
            ELSE Returns(AvailabilityText(arg))
    /\ UNCHANGED <<pc, log, mainVars, lifeVars, op, arg, ctx, calls,
                   httpRequests, table>>

analyze_skin_condition_image_lookup == ContextLookup("analyze_skin_condition_image")

\* try: api_key = os.getenv("SKIN_ANALYSIS_API_KEY"); if not api_key: return
\*      ...; response = await http_client.post(url, json=payload, headers=...)
analyze_skin_condition_image_request ==
    /\ pc = "serving"
    /\ op = "analyze_skin_condition_image"
    /\ hpc = "body"
    /\ IF ~Truthy(getenv("SKIN_ANALYSIS_API_KEY"))
       THEN /\ Returns(SkinKeyNotConfigured)
            /\ UNCHANGED <<calls, httpRequests>>
       ELSE SendHttpRequest
    /\ UNCHANGED <<pc, log, mainVars, lifeVars, op, arg, ctx, response, table>>

\* response.raise_for_status(); result = response.json(); result.get(...)
\* with defaults; for rec in recommendations (a non-iterable value raises).
analyze_skin_condition_image_response ==
    /\ pc = "serving"
    /\ op = "analyze_skin_condition_image"
    /\ hpc = "awaiting"
    /\ \E r \in HttpResponses :
         /\ response' = r
         /\ CASE r.raised ->
                   ExceptClause("Error analyzing skin condition: ", "ConnectError")
              [] ~r.raised /\ RaisesForStatus(r) ->
                   ExceptClause("Error analyzing skin condition: ", "HTTPStatusError")
              [] ~r.raised /\ ~RaisesForStatus(r) /\ r.body = "malformed" ->
                   ExceptClause("Error analyzing skin condition: ", "JSONDecodeError")
              [] ~r.raised /\ ~RaisesForStatus(r) /\ r.body = "badfields" ->
                   ExceptClause("Error analyzing skin condition: ", "TypeError")
              [] ~r.raised /\ ~RaisesForStatus(r) /\ r.body \in {"data", "nodata"} ->
                   Returns(AnalysisText)
    /\ UNCHANGED <<pc, log, mainVars, lifeVars, op, arg, ctx, calls,
                   httpRequests, table>>

\* return f"""... {doctor_name} ... {practice_website} ..."""
create_appointment_booking_resource ==
    /\ pc = "serving"
    /\ op = "create_appointment_booking_resource"
    /\ hpc = "body"
    /\ Returns(BookingText)
    /\ UNCHANGED <<pc, log, mainVars, lifeVars, op, arg, ctx, calls,
                   httpRequests, response, table>>

save_user_interaction_lookup == ContextLookup("save_user_interaction")

\* try: response = supabase.table("user_interactions").insert(data).execute()
save_user_interaction ==
    /\ pc = "serving"
    /\ op = "save_user_interaction"
    /\ hpc = "body"
    /\ calls' = calls + 1
    /\ \E raised \in BOOLEAN, stored \in BOOLEAN :
         IF raised
         THEN /\ response' = Response(TRUE, 0, "none", <<>>)
              /\ ExceptClause("Error saving interaction: ", "APIError")
         ELSE /\ response' =
                   Response(FALSE, 200, "rows",
                            IF stored THEN <<[user_id |-> arg]>> ELSE <<>>)
              /\ IF stored
                 THEN Returns(<<"Interaction saved successfully for user ", arg>>)
                 ELSE Returns(<<"Failed to save interaction">>)
    /\ UNCHANGED <<pc, log, mainVars, lifeVars, op, arg, ctx, httpRequests, table>>

(***************************************************************************)
(* Prompts: a list of messages built from the parameters alone.            *)
(***************************************************************************)
skincare_product_consultation ==
    /\ pc = "serving"
    /\ op = "skincare_product_consultation"
    /\ hpc = "body"
    /\ Returns(<<"UserMessage", "AssistantMessage", "UserMessage", "AssistantMessage">>)
    /\ UNCHANGED <<pc, log, mainVars, lifeVars, op, arg, ctx, calls,
                   httpRequests, response, table>>

appointment_workflow_prompt ==
    /\ pc = "serving"
    /\ op = "appointment_workflow_prompt"
    /\ hpc = "body"
    /\ Returns(<<"UserMessage", "AssistantMessage">>)
    /\ UNCHANGED <<pc, log, mainVars, lifeVars, op, arg, ctx, calls,
                   httpRequests, response, table>>

(***************************************************************************)
(* Initial state: the module body has run (mcp = FastMCP(...), decorators) *)
(***************************************************************************)
Init ==
    /\ module_name \in {"__main__", "healthcaremcp"}
    /\ environ \in [EnvKeys -> EnvValues]
    /\ pc = "module_loaded"
    /\ log = <<>>
    /\ supabase = "none"
    /\ http_client = "none"
    /\ closeCount = 0
    /\ exitHow = "none"
    /\ printed = <<>>
    /\ exitCode = -1
    /\ op = "none"
    /\ hpc = "idle"
    /\ arg = "none"
    /\ ctx = "none"
    /\ outcome = "none"
    /\ result = <<>>
    /\ calls = 0
    /\ httpRequests = 0
    /\ response = NoResponse
    /\ table = <<>>

Next ==
    \/ Main
    \/ HostRun
    \/ LifespanCheck
    \/ CreateSupabase
    \/ CreateHttp
    \/ Yield
    \/ RunLoopExit
    \/ Finally
    \/ Dispatch
    \/ Return
    \/ get_user_profile_lookup
    \/ get_user_profile
    \/ get_user_medical_history_lookup
    \/ get_user_medical_history
    \/ search_nearby_doctors_lookup
    \/ search_nearby_doctors_request
    \/ search_nearby_doctors_response
    \/ get_doctor_availability_lookup
    \/ get_doctor_availability_request
    \/ get_doctor_availability_response
    \/ analyze_skin_condition_image_lookup
    \/ analyze_skin_condition_image_request
    \/ analyze_skin_condition_image_response
    \/ create_appointment_booking_resource
    \/ save_user_interaction_lookup
    \/ save_user_interaction
    \/ skincare_product_consultation
    \/ appointment_workflow_prompt

Spec == Init /\ [][Next]_vars

(***************************************************************************)
(* Properties.                                                             *)
(***************************************************************************)
ErrorPrefixes ==
    {"Error retrieving user profile: ", "Error retrieving medical history: ",
     "Error searching for doctors: ", "Error retrieving doctor availability: ",
     "Error analyzing skin condition: ", "Error saving interaction: "}

HasErrorIndication(text) == text # <<>> /\ text[1] \in ErrorPrefixes

NotConfiguredStrings == {DoctorKeyNotConfigured, SkinKeyNotConfigured}

HttpTools ==
    {"search_nearby_doctors", "get_doctor_availability",
     "analyze_skin_condition_image"}

\* The API key each HTTP tool sends.
KeyOf(o) ==
    IF o = "analyze_skin_condition_image"
    THEN "SKIN_ANALYSIS_API_KEY" ELSE "DOCTOR_API_KEY"

\* The first piece of each success template.
SuccessHeads ==
    {DoctorsFound[1], AvailabilityText("x")[1], AnalysisText[1]}

\* A fault was raised at some step of the finished invocation: fetching the
\* client, the external call, or reading the answer.
FaultRaised ==
    \/ ~Subscriptable(ctx)
    \/ response.raised
    \/ /\ op \in {"search_nearby_doctors", "analyze_skin_condition_image"}
       /\ httpRequests = 1
       /\ RaisesForStatus(response) \/ response.body = "malformed"

\* C1: in every Resource and Tool handler that uses the clients, a fault
\* raised at any step (fetching the client from the lifespan context, the
\* external call, reading the answer) never leaves the handler: the
\* invocation ends by returning a string with an error indication.
C1_FaultsNeverPropagate ==
    (hpc = "done" /\ op \in UsesContext)
        => /\ outcome = "returned"
           /\ FaultRaised => HasErrorIndication(result)

\* C2: once app_lifespan has yielded, the HTTP client is closed exactly once
\* when the run loop is left, normally or by a fault: not closed while the
\* loop runs, closed once (never zero times, never twice) when it has ended.
C2_ClosedExactlyOnce ==
    /\ closeCount <= 1
    /\ "yield" \in Range(log) =>
          IF pc = "stopped"
          THEN closeCount = 1 /\ http_client = "closed"
          ELSE closeCount = 0 /\ http_client = "open"

C2_Witness == pc = "stopped" /\ exitHow = "fault" /\ closeCount = 1

\* The keys that are absent or empty in the environment.
AbsentOrEmpty == {k \in EnvKeys : environ[k] \in {"absent", "empty"}}

C4_NoKeyNoRequest ==
    (op = "search_nearby_doctors" /\ ~Truthy(getenv("DOCTOR_API_KEY")))
        => /\ httpRequests = 0
           /\ hpc = "done" =>
                 outcome = "returned" /\ result = DoctorKeyNotConfigured

\* C5: when the data-store query of get_user_profile or
\* get_user_medical_history returns no rows, the handler returns a non-empty
\* "not found" string that contains the identifier: not an empty string, not
\* an error string, not a fault.
C5_NotFoundNamesIdentifier ==
    (/\ op \in {"get_user_profile", "get_user_medical_history"}
     /\ hpc = "done"
     /\ calls = 1
     /\ ~response.raised
     /\ response.data = <<>>)
        => /\ outcome = "returned"
           /\ result # <<>>
           /\ result[1] \in {"No user found with ID: ",
                             "No medical history found for user: "}
           /\ arg \in Range(result)
           /\ ~HasErrorIndication(result)

C5_Witness ==
    /\ op = "get_user_profile"
    /\ hpc = "done"
    /\ calls = 1
    /\ ~response.raised
    /\ response.data = <<>>
    /\ table # <<>>
    /\ arg = "42"

\* The text of one record as the handler lays it out, ending in the
\* record delimiter.
ExpectedBlock(row) ==
    <<"Date: ", ToString(row.created_at), "Condition: ", row.condition, "---">>

\* C6: whatever rows medical_records holds and in whatever order they were
\* inserted, when the query succeeds with rows get_user_medical_history
\* renders the rows of the given user, each exactly once and each followed
\* by the delimiter, most recent first, and no row of another user.
C6_HistoryMostRecentFirst ==
    (/\ op = "get_user_medical_history"
     /\ hpc = "done"
     /\ calls = 1
     /\ ~response.raised
     /\ Matching(table, "user_id", arg, 1) # <<>>)
        => LET idx == Matching(table, "user_id", arg, 1)
           IN  /\ outcome = "returned"
               /\ \E p \in [1..Len(idx) -> Range(idx)] :
                    /\ \A i, j \in 1..Len(idx) : i # j => p[i] # p[j]
                    /\ \A i \in 1..(Len(idx) - 1) :
                          table[p[i]].created_at >= table[p[i + 1]].created_at
                    /\ result =
                         <<"Medical History for User ", arg, ":">>
                         \o Flatten([i \in 1..Len(idx) |-> ExpectedBlock(table[p[i]])])

C6_Witness ==
    /\ op = "get_user_medical_history"
    /\ hpc = "done"
    /\ outcome = "returned"
    /\ Len(table) = 3
    /\ table[1].user_id = arg /\ table[1].created_at = 1
    /\ table[2].user_id # arg
    /\ table[3].user_id = arg /\ table[3].created_at = 2
    /\ Len(response.data) = 2

\* C7: each tool that sends an API key (search_nearby_doctors,
\* get_doctor_availability, analyze_skin_condition_image), when its key is
\* missing, sends no request and what it returns is a "not configured"
\* string.
C7_MissingKeyNotConfigured ==
    (op \in HttpTools /\ ~Truthy(getenv(KeyOf(op))))
        => /\ httpRequests = 0
           /\ (hpc = "done" /\ outcome = "returned")
                 => result \in NotConfiguredStrings

\* C8: for each tool that performs an HTTP call, an answer with a
\* non-success status ends in a failure string, never in the tool's success
\* template.
C8_NonSuccessIsFailure ==
    (/\ op \in HttpTools
     /\ hpc = "done"
     /\ httpRequests = 1
     /\ ~response.raised
     /\ RaisesForStatus(response))
        => /\ outcome = "returned"
           /\ HasErrorIndication(result)
           /\ result[1] \notin SuccessHeads

\* a happened before b in the lifecycle log (when both happened).
Before(a, b) ==
    \A i, j \in DOMAIN log : (log[i] = a /\ log[j] = b) => i < j

\* C9: in app_lifespan the check of the data-store endpoint and key comes
\* before any client is constructed and the data-store client before the
\* HTTP client; on every startup that fails the context is never yielded, no
\* handler is ever dispatched and no HTTP client is left open.
C9_StartupOrderAndFailure ==
    /\ Before("check", "create_supabase")
    /\ Before("check", "create_http")
    /\ Before("create_supabase", "create_http")
    /\ (supabase # "none" \/ http_client # "none") => "check" \in Range(log)
    /\ http_client # "none" => supabase = "constructed"
    /\ "dispatch" \in Range(log) => "yield" \in Range(log)
    /\ pc = "startup_failed" =>
          /\ "yield" \notin Range(log)
          /\ "dispatch" \notin Range(log)
          /\ op = "none"
          /\ http_client # "open"

C9_Witness ==
    /\ pc = "startup_failed"
    /\ supabase = "constructed"
    /\ log = <<"run", "check", "create_supabase", "create_http">>

\* C10: an invocation issues at most one external call (a data-store query
\* or an HTTP request); when that call fails the handler returns one
\* failure string and the call is not issued again; the prompts and
\* create_appointment_booking_resource issue none.
C10_AtMostOneExternalCall ==
    /\ calls <= 1
    /\ httpRequests <= calls
    /\ op \in NoContext => calls = 0
    /\ (hpc = "done" /\ response.raised) =>
          /\ calls = 1
          /\ outcome = "returned"
          /\ HasErrorIndication(result)

C10_Witness ==
    /\ op = "save_user_interaction"
    /\ hpc = "done"
    /\ response.raised
    /\ calls = 1
    /\ HasErrorIndication(result)
====
